---- MODULE Spec2Model ----
(***************************************************************************)
(* The three mempool caches of mempool/cat/cache.go:                       *)
(*   LRUTxCache     - bounded, recency ordered set of transaction keys     *)
(*   EvictedTxCache - bounded map key -> eviction record                   *)
(*   SeenTxSet      - map key -> (peer set, creation time)                 *)
(* Every method runs between mtx.Lock() and the deferred mtx.Unlock() of   *)
(* its own structure, except for the early returns that precede Lock().    *)
(* A caller is idle or holds the mutex of one structure. A method is two   *)
(* steps: Lock, which blocks while the mutex is held, and the body up to   *)
(* the return, the deferred Unlock included. A caller blocked in Lock has  *)
(* done nothing yet, so the method and its arguments appear with the body  *)
(* step. An early return, which reads only the immutable staticSize or the *)
(* method's own arguments, is one step.                                    *)
(***************************************************************************)
EXTENDS Integers, Sequences, FiniteSets, TLC

\* ------------------------------------------------------------------ bounds
\* largest capacity an EvictedTxCache is constructed with
MaxCap == 2

\* largest capacity an LRUTxCache is constructed with: as many as there are
\* keys, so that a full cache can lose a key between two others
MaxLRUCap == 3

\* number of concurrent callers
NumProcs == 2

\* largest value the clock returns
MaxTime == 1

\* largest peer id
MaxPeer == 2

Procs == 1..NumProcs

\* types.TxKey values; one more key than the largest capacity
Keys == 1..(MaxCap + 1)

\* the keys used with the SeenTxSet: two, as every method of it but Prune,
\* Len and Reset touches the record of one key
SeenKeys == {k \in Keys : k <= 2}

\* uint16 peer ids; 0 is the reserved "no peer"
Peers == 0..MaxPeer

\* time.Time values, compared with Before
Times == 0..MaxTime

\* the metadata a wrappedTx carries besides its key
Metas ==
    { [priority |-> 1, gasWanted |-> 10, sender |-> "a", size |-> 100],
      [priority |-> 2, gasWanted |-> 20, sender |-> "b", size |-> 200] }

VARIABLES
    staticSize,   \* LRUTxCache.staticSize
    cacheMap,     \* LRUTxCache.cacheMap: the keys that have a list element
    list,         \* LRUTxCache.list: front (index 1) to back
    lruMtx,       \* LRUTxCache.mtx: TRUE while locked
    evStaticSize, \* EvictedTxCache.staticSize
    cache,        \* EvictedTxCache.cache: key -> EvictedTxInfo
    evMtx,        \* EvictedTxCache.mtx: TRUE while locked
    set,          \* SeenTxSet.set: key -> timestampedPeerSet
    seenMtx,      \* SeenTxSet.mtx: TRUE while locked
    pc,           \* per caller: "idle", or the mutex it holds:
                  \* "lru" | "evicted" | "seen"
    local,        \* per caller: the local variables of the method it is
                  \* in the middle of, when the method is taken statement
                  \* by statement; NoLocal otherwise
    ret,          \* the call that completed last and what it returned;
                  \* cleared when the next call locks
    recency,      \* history: keys in the order of their most recent LRU Push
    pushOnly,     \* history: no LRU Remove or Reset has completed so far
    stamp,        \* history: the timeEvicted that the EvictedTxCache Push
                  \* that completed last gave its record; cleared with ret
    evPushed,     \* history: the keys pushed to the EvictedTxCache so far,
    evPushOnly,   \* as long as nothing but Push has completed on it
    replaced,     \* history: the key whose record the EvictedTxCache Push
                  \* that completed last found and overwrote, if it did;
                  \* cleared when the next call locks the EvictedTxCache
    removed,      \* history: the keys whose record (of the EvictedTxCache,
                  \* of the SeenTxSet) the call that completed last deleted;
                  \* cleared with ret
    got,          \* the map that the SeenTxSet Get that completed last gave its
                  \* caller, as the caller sees it now; dropped when a call
                  \* locks the SeenTxSet after another call has completed
    popRun        \* history: the run of SeenTxSet Pops on one key that no
                  \* other mutation of that key has interrupted so far: the
                  \* key, its peers when the run began, the peers handed
                  \* out, and the number of Pops that returned a peer

lruVars == <<staticSize, cacheMap, list, lruMtx, recency, pushOnly>>

evVars == <<evStaticSize, cache, evMtx, evPushed, evPushOnly, replaced>>

seenVars == <<set, seenMtx, popRun, got>>

vars == <<staticSize, cacheMap, list, lruMtx, recency, pushOnly,
          evStaticSize, cache, evMtx, evPushed, evPushOnly, replaced,
          set, seenMtx, popRun, got, stamp, removed, pc, local, ret>>

NoCall == [op |-> "none"]

NoRet == [call |-> NoCall, val |-> "none"]

NoStamp == "none"

NoLocal == [op |-> "none"]

\* mtx.Lock() gets through whether the mutex is held or not
UnlockedAlways(mtx) == TRUE

\* mtx.Lock() gets through when the mutex is not held
Unlocked(mtx) == ~mtx

\* caller p, idle, gets through Lock of the mutex named m
Locks(p, m) ==
    /\ pc[p] = "idle"
    /\ pc' = [pc EXCEPT ![p] = m]
    /\ ret' = NoRet
    /\ stamp' = NoStamp
    /\ removed' = {}
    /\ UNCHANGED local

\* caller p, holding the mutex named m and at the start of the method's
\* body, returns v from call c ("void" when the method returns nothing)
Return(p, m, c, v) ==
    /\ pc[p] = m
    /\ local[p] = NoLocal
    /\ pc' = [pc EXCEPT ![p] = "idle"]
    /\ ret' = [call |-> c, val |-> v]
    /\ UNCHANGED local

\* caller p, holding the mutex named m and in the middle of call c, returns v
ReturnAfter(p, m, c, v) ==
    /\ pc[p] = m
    /\ local[p] # NoLocal
    /\ pc' = [pc EXCEPT ![p] = "idle"]
    /\ ret' = [call |-> c, val |-> v]
    /\ local' = [local EXCEPT ![p] = NoLocal]

\* caller p calls c, which returns v before it locks anything
ReturnEarly(p, c, v) ==
    /\ pc[p] = "idle"
    /\ ret' = [call |-> c, val |-> v]
    /\ stamp' = NoStamp
    /\ removed' = {}
    /\ UNCHANGED <<pc, local>>

\* ------------------------------------------------------- container/list
\* the last element instead of the first
FrontIsBack(l) == IF Len(l) = 0 THEN 0 ELSE l[Len(l)]

\* list.Front(): the first element, or nil (here 0) for an empty list
Front(l) == IF Len(l) = 0 THEN 0 ELSE l[1]

\* list.Remove(e): the list without the element that holds key k
ListRemove(l, k) == SelectSeq(l, LAMBDA x : x # k)

\* list.PushBack(v)
PushBack(l, k) == Append(l, k)

\* the element stays where it is
MoveToBackSkipped(l, k) == l

\* the list is left as it is
ListInitSkipped(l) == l

\* list.Init(): the list emptied
ListInit(l) == <<>>

\* list.MoveToBack(e) for the element e that holds key k
MoveToBack(l, k) == Append(ListRemove(l, k), k)

\* ------------------------------------------------------------ LRUTxCache
\* the early return never taken
DisabledNever(size) == FALSE

\* `if c.staticSize == 0` of Push and Has
Disabled(size) == size = 0

\* off by one: evicts only above capacity
AtCapacityLate(l, size) == Len(l) > size

\* `if c.list.Len() >= c.staticSize`
AtCapacity(l, size) == Len(l) >= size

\* c.mtx.Lock()
LRULock(p) ==
    /\ Locks(p, "lru")
    /\ Unlocked(lruMtx)
    /\ lruMtx' = TRUE
    /\ UNCHANGED <<staticSize, cacheMap, list, recency, pushOnly>>
    /\ UNCHANGED <<evVars, seenVars>>

\* a Push of a stored key reports it as new as well
PushLockedAlwaysNew(cm, l, size, txKey) ==
    IF txKey \in cm
      THEN [cacheMap |-> cm, list |-> MoveToBack(l, txKey), ret |-> TRUE]
      ELSE LET front == Front(l)
               evict == AtCapacity(l, size) /\ front # 0
               cm1 == IF evict THEN cm \ {front} ELSE cm
               l1 == IF evict THEN ListRemove(l, front) ELSE l
           IN [cacheMap |-> cm1 \cup {txKey}, list |-> PushBack(l1, txKey), ret |-> TRUE]

\* the locked part of Push: [cacheMap, list, ret] after it
PushLocked(cm, l, size, txKey) ==
    IF txKey \in cm
      THEN [cacheMap |-> cm, list |-> MoveToBack(l, txKey), ret |-> FALSE]
      ELSE LET front == Front(l)
               evict == AtCapacity(l, size) /\ front # 0
               cm1 == IF evict THEN cm \ {front} ELSE cm
               l1 == IF evict THEN ListRemove(l, front) ELSE l
           IN [cacheMap |-> cm1 \cup {txKey}, list |-> PushBack(l1, txKey), ret |-> TRUE]

LRUPush(p, txKey) ==
    LET c == [op |-> "LRUPush", key |-> txKey]
    IN /\ \/ /\ Disabled(staticSize)
             /\ ReturnEarly(p, c, TRUE)
             /\ UNCHANGED <<cacheMap, list, lruMtx>>
          \/ /\ ~Disabled(staticSize)
             /\ LET r == PushLocked(cacheMap, list, staticSize, txKey)
                IN /\ cacheMap' = r.cacheMap
                   /\ list' = r.list
                   /\ Return(p, "lru", c, r.ret)
             /\ lruMtx' = FALSE
             /\ UNCHANGED <<stamp, removed>>
       /\ recency' = Append(ListRemove(recency, txKey), txKey)
       /\ UNCHANGED <<staticSize, pushOnly>>
       /\ UNCHANGED <<evVars, seenVars>>

\* the key goes from the map and its element stays in the list
LRURemoveLockedMapOnly(cm, l, txKey) == [cacheMap |-> cm \ {txKey}, list |-> l]

\* the locked part of Remove: [cacheMap, list] after it
LRURemoveLocked(cm, l, txKey) ==
    [cacheMap |-> cm \ {txKey},
     list |-> IF txKey \in cm THEN ListRemove(l, txKey) ELSE l]

LRURemove(p, txKey) ==
    /\ Return(p, "lru", [op |-> "LRURemove", key |-> txKey], "void")
    /\ LET r == LRURemoveLocked(cacheMap, list, txKey)
       IN cacheMap' = r.cacheMap /\ list' = r.list
    /\ lruMtx' = FALSE
    /\ pushOnly' = FALSE
    /\ UNCHANGED <<staticSize, recency>>
    /\ UNCHANGED <<evVars, seenVars, stamp, removed>>

\* the locked part of Has
HasLocked(cm, txKey) == txKey \in cm

LRUHas(p, txKey) ==
    LET c == [op |-> "LRUHas", key |-> txKey]
    IN /\ \/ /\ Disabled(staticSize)
             /\ ReturnEarly(p, c, FALSE)
             /\ UNCHANGED lruMtx
          \/ /\ ~Disabled(staticSize)
             /\ Return(p, "lru", c, HasLocked(cacheMap, txKey))
             /\ lruMtx' = FALSE
             /\ UNCHANGED <<stamp, removed>>
       /\ UNCHANGED <<staticSize, cacheMap, list, recency, pushOnly>>
       /\ UNCHANGED <<evVars, seenVars>>

LRUReset(p) ==
    /\ Return(p, "lru", [op |-> "LRUReset"], "void")
    /\ cacheMap' = {}
    /\ list' = ListInit(list)
    /\ lruMtx' = FALSE
    /\ pushOnly' = FALSE
    /\ UNCHANGED <<staticSize, recency>>
    /\ UNCHANGED <<evVars, seenVars, stamp, removed>>

\* --------------------------------------------------------- EvictedTxCache
\* a key that is in the map keeps its value
PutIfAbsent(m, k, v) == [x \in (DOMAIN m) \cup {k} |-> IF x \in DOMAIN m THEN m[x] ELSE v]

\* map with key k set to v
Put(m, k, v) == [x \in (DOMAIN m) \cup {k} |-> IF x = k THEN v ELSE m[x]]

\* delete(m, k)
Delete(m, k) == [x \in (DOMAIN m) \ {k} |-> m[x]]

\* the orders in which `range` may visit the keys S
RECURSIVE Orders(_)
Orders(S) ==
    IF S = {} THEN {<<>>}
    ELSE UNION {{<<x>> \o o : o \in Orders(S \ {x})} : x \in S}

\* time.Time.Before
Before(t, u) == t < u

\* `if info.timeEvicted.Before(oldestTxTime)` of Push
Older(t, oldestTxTime) == Before(t, oldestTxTime)

\* a record stamped exactly at the limit is dropped too
ExpiredInclusive(t, limit) == t <= limit

\* `if info.timeEvicted.Before(limit)` of Prune
Expired(t, limit) == Before(t, limit)

\* the loop of Push over the keys order[i..]: the key it ends with
RECURSIVE ScanOldest(_, _, _, _, _)
ScanOldest(m, order, i, oldestTxKey, oldestTxTime) ==
    IF i > Len(order)
      THEN oldestTxKey
      ELSE IF Older(m[order[i]].timeEvicted, oldestTxTime)
             THEN ScanOldest(m, order, i + 1, order[i], m[order[i]].timeEvicted)
             ELSE ScanOldest(m, order, i + 1, oldestTxKey, oldestTxTime)

\* off by one: one record too many is tolerated
TooLargeLate(m, size) == Cardinality(DOMAIN m) > size + 1

\* `if len(c.cache) > c.staticSize`
TooLarge(m, size) == Cardinality(DOMAIN m) > size

\* &EvictedTxInfo{...} built from wtx at time now
NewInfo(wtx, now) ==
    [timeEvicted |-> now, priority |-> wtx.priority, gasWanted |-> wtx.gasWanted,
     sender |-> wtx.sender, size |-> wtx.size]

\* the keys the loop of Push may end with, over the orders `range` may take
Oldest(m, wtx, now2, orders) ==
    {ScanOldest(m, order, 1, wtx.key, now2) : order \in orders}

\* the locked part of Push, with the two clock readings and the orders in
\* which `range` may visit the keys: the maps it may leave
EvPushLocked(m, size, wtx, now1, now2, orders) ==
    LET m1 == Put(m, wtx.key, NewInfo(wtx, now1))
    IN IF TooLarge(m1, size)
         THEN {Delete(m1, oldestTxKey) : oldestTxKey \in Oldest(m1, wtx, now2, orders)}
         ELSE {m1}

\* the wrappedTx values Push is called with
WrappedTxs == {[key |-> k, priority |-> x.priority, gasWanted |-> x.gasWanted,
                sender |-> x.sender, size |-> x.size] : k \in Keys, x \in Metas}

\* c.mtx.Lock()
EvLock(p) ==
    /\ Locks(p, "evicted")
    /\ Unlocked(evMtx)
    /\ evMtx' = TRUE
    /\ replaced' = {}
    /\ UNCHANGED <<evStaticSize, cache, evPushed, evPushOnly>>
    /\ UNCHANGED <<lruVars, seenVars>>

EvPush(p, wtx) ==
    /\ Return(p, "evicted", [op |-> "EvPush", wtx |-> wtx], "void")
    /\ LET orders == Orders((DOMAIN cache) \cup {wtx.key})
       IN \E now1 \in Times, now2 \in Times :
            /\ cache' \in EvPushLocked(cache, evStaticSize, wtx, now1, now2, orders)
            /\ stamp' = now1
    /\ removed' = ((DOMAIN cache) \cup {wtx.key}) \ DOMAIN cache'
    /\ replaced' = {wtx.key} \cap DOMAIN cache
    /\ evPushed' = IF evPushOnly THEN evPushed \cup {wtx.key} ELSE evPushed
    /\ evMtx' = FALSE
    /\ UNCHANGED <<evStaticSize, evPushOnly>>
    /\ UNCHANGED <<lruVars, seenVars>>

EvHas(p, txKey) ==
    /\ Return(p, "evicted", [op |-> "EvHas", key |-> txKey], txKey \in DOMAIN cache)
    /\ evMtx' = FALSE
    /\ UNCHANGED <<evStaticSize, cache, evPushed, evPushOnly, replaced, stamp, removed>>
    /\ UNCHANGED <<lruVars, seenVars>>

\* Get and Pop of a key without record return nil
NilInfo == [nil |-> TRUE]

EvGet(p, txKey) ==
    /\ Return(p, "evicted", [op |-> "EvGet", key |-> txKey],
              IF txKey \in DOMAIN cache THEN cache[txKey] ELSE NilInfo)
    /\ evMtx' = FALSE
    /\ UNCHANGED <<evStaticSize, cache, evPushed, evPushOnly, replaced, stamp, removed>>
    /\ UNCHANGED <<lruVars, seenVars>>

\* the record is returned and stays in the cache
EvPopLockedKeeps(m, txKey) ==
    IF txKey \in DOMAIN m
      THEN [cache |-> m, ret |-> m[txKey]]
      ELSE [cache |-> m, ret |-> NilInfo]

\* the locked part of Pop: [cache, ret] after it
EvPopLocked(m, txKey) ==
    IF txKey \in DOMAIN m
      THEN [cache |-> Delete(m, txKey), ret |-> m[txKey]]
      ELSE [cache |-> m, ret |-> NilInfo]

EvPop(p, txKey) ==
    /\ LET r == EvPopLocked(cache, txKey)
       IN /\ cache' = r.cache
          /\ Return(p, "evicted", [op |-> "EvPop", key |-> txKey], r.ret)
    /\ evMtx' = FALSE
    /\ removed' = (DOMAIN cache) \ DOMAIN cache'
    /\ evPushed' = {}
    /\ evPushOnly' = FALSE
    /\ UNCHANGED <<evStaticSize, replaced, stamp>>
    /\ UNCHANGED <<lruVars, seenVars>>

\* the locked part of Prune
PruneLocked(m, limit) ==
    [k \in {x \in DOMAIN m : ~Expired(m[x].timeEvicted, limit)} |-> m[k]]

EvPrune(p, limit) ==
    /\ Return(p, "evicted", [op |-> "EvPrune", limit |-> limit], "void")
    /\ cache' = PruneLocked(cache, limit)
    /\ evMtx' = FALSE
    /\ removed' = (DOMAIN cache) \ DOMAIN cache'
    /\ evPushed' = {}
    /\ evPushOnly' = FALSE
    /\ UNCHANGED <<evStaticSize, replaced, stamp>>
    /\ UNCHANGED <<lruVars, seenVars>>

EvReset(p) ==
    /\ Return(p, "evicted", [op |-> "EvReset"], "void")
    /\ cache' = <<>>
    /\ evMtx' = FALSE
    /\ removed' = (DOMAIN cache) \ DOMAIN cache'
    /\ evPushed' = {}
    /\ evPushOnly' = FALSE
    /\ UNCHANGED <<evStaticSize, replaced, stamp>>
    /\ UNCHANGED <<lruVars, seenVars>>

\* -------------------------------------------------------------- SeenTxSet
\* the peer 0 is recorded like any other
IsNoPeerNever(peer) == FALSE

\* `if peer == 0` of Add
IsNoPeer(peer) == peer = 0

\* the record goes with its last peer and also when it has none
SinglePeerOrNone(peers) == Cardinality(peers) <= 1

\* the record is never deleted, its last peer is only taken out
SinglePeerNever(peers) == FALSE

\* `if len(set.peers) == 1` of Remove
SinglePeer(peers) == Cardinality(peers) = 1

\* `if seenSet.time.Before(limit)` of Prune
SeenExpired(t, limit) == Before(t, limit)

NoRun == [key |-> 0]

NoGot == [key |-> 0]

\* Get hands out the peers map of the record itself
NoCopy(txKey, peers) == [key |-> txKey, present |-> TRUE, live |-> TRUE, peers |-> peers]

\* the map Get makes and fills from the peers of the record of txKey
Copy(txKey, peers) == [key |-> txKey, present |-> TRUE, live |-> FALSE, peers |-> peers]

\* the nil map Get returns for a key without record
NilCopy(txKey) == [key |-> txKey, present |-> FALSE, live |-> FALSE, peers |-> {}]

\* the map g that a caller holds, after a step that takes the SeenTxSet from
\* m to m1: a map of its own stays as it is; the peers map of a record goes
\* with that record until the record is deleted
Held(g, m, m1) ==
    IF g.key # 0 /\ g.live
      THEN IF g.key \in DOMAIN m /\ g.key \in DOMAIN m1
             THEN [g EXCEPT !.peers = m1[g.key].peers]
             ELSE [g EXCEPT !.live = FALSE]
      ELSE g

\* popRun after a mutation of the record of key k other than a Pop
EndRun(k) == IF popRun.key = k THEN NoRun ELSE popRun

\* s.mtx.Lock()
SeenLock(p) ==
    /\ Locks(p, "seen")
    /\ Unlocked(seenMtx)
    /\ seenMtx' = TRUE
    /\ got' = IF ret.call.op = "SeenGet" THEN got ELSE NoGot
    /\ UNCHANGED <<set, popRun>>
    /\ UNCHANGED <<lruVars, evVars>>

\* an Add to a record that exists stamps it anew
AddLockedRefreshes(m, txKey, peer, now) ==
    IF txKey \notin DOMAIN m
      THEN Put(m, txKey, [peers |-> {peer}, time |-> now])
      ELSE [m EXCEPT ![txKey] = [peers |-> @.peers \cup {peer}, time |-> now]]

\* the locked part of Add, the record being created at time now
AddLocked(m, txKey, peer, now) ==
    IF txKey \notin DOMAIN m
      THEN Put(m, txKey, [peers |-> {peer}, time |-> now])
      ELSE [m EXCEPT ![txKey].peers = @ \cup {peer}]

SeenAdd(p, txKey, peer) ==
    LET c == [op |-> "SeenAdd", key |-> txKey, peer |-> peer]
    IN /\ \/ /\ IsNoPeer(peer)
             /\ ReturnEarly(p, c, "void")
             /\ UNCHANGED <<set, seenMtx, popRun, got>>
          \/ /\ ~IsNoPeer(peer)
             /\ Return(p, "seen", c, "void")
             /\ \E now \in Times : set' = AddLocked(set, txKey, peer, now)
             /\ seenMtx' = FALSE
             /\ popRun' = EndRun(txKey)
             /\ got' = Held(got, set, set')
             /\ UNCHANGED <<stamp, removed>>
       /\ UNCHANGED <<lruVars, evVars>>

\* the peer is returned and stays in the set
PopLockedKeeps(peers) ==
    IF peers = {}
      THEN {[peers |-> peers, val |-> 0]}
      ELSE {[peers |-> peers, val |-> peer] : peer \in peers}

\* the locked part of Pop on a record with these peers: what may be left and
\* returned, `range` yielding any peer first
PopLocked(peers) ==
    IF peers = {}
      THEN {[peers |-> peers, val |-> 0]}
      ELSE {[peers |-> peers \ {peer}, val |-> peer] : peer \in peers}

\* a record left without peers goes
WithPeersOrGone(m, txKey, peers) ==
    IF peers = {} THEN Delete(m, txKey) ELSE [m EXCEPT ![txKey].peers = peers]

\* the map after delete(seenSet.peers, peer) has left these peers in the
\* record of txKey: the record shares its peers map with seenSet and stays
WithPeers(m, txKey, peers) == [m EXCEPT ![txKey].peers = peers]

\* popRun after a Pop on key k, whose record held peers, returned val
PopRunAfter(k, peers, val) ==
    LET run == IF popRun.key = k
                 THEN popRun
                 ELSE [key |-> k, base |-> peers, handed |-> {}, n |-> 0]
    IN IF val = 0
         THEN run
         ELSE [run EXCEPT !.handed = @ \cup {val}, !.n = @ + 1]

SeenPop(p, txKey) ==
    LET c == [op |-> "SeenPop", key |-> txKey]
    IN /\ IF txKey \in DOMAIN set
            THEN \E r \in PopLocked(set[txKey].peers) :
                   /\ set' = WithPeers(set, txKey, r.peers)
                   /\ Return(p, "seen", c, r.val)
                   /\ popRun' = PopRunAfter(txKey, set[txKey].peers, r.val)
            ELSE /\ set' = set
                 /\ Return(p, "seen", c, 0)
                 /\ popRun' = PopRunAfter(txKey, {}, 0)
       /\ seenMtx' = FALSE
       /\ got' = Held(got, set, set')
       /\ UNCHANGED <<stamp, removed>>
       /\ UNCHANGED <<lruVars, evVars>>

SeenRemoveKey(p, txKey) ==
    /\ Return(p, "seen", [op |-> "SeenRemoveKey", key |-> txKey], "void")
    /\ set' = Delete(set, txKey)
    /\ seenMtx' = FALSE
    /\ removed' = (DOMAIN set) \ DOMAIN set'
    /\ popRun' = EndRun(txKey)
    /\ got' = Held(got, set, set')
    /\ UNCHANGED <<lruVars, evVars, stamp>>

\* the locked part of Remove
RemoveLocked(m, txKey, peer) ==
    IF txKey \in DOMAIN m
      THEN IF SinglePeer(m[txKey].peers)
             THEN Delete(m, txKey)
             ELSE [m EXCEPT ![txKey].peers = @ \ {peer}]
      ELSE m

SeenRemove(p, txKey, peer) ==
    /\ Return(p, "seen", [op |-> "SeenRemove", key |-> txKey, peer |-> peer], "void")
    /\ set' = RemoveLocked(set, txKey, peer)
    /\ seenMtx' = FALSE
    /\ removed' = (DOMAIN set) \ DOMAIN set'
    /\ popRun' = EndRun(txKey)
    /\ got' = Held(got, set, set')
    /\ UNCHANGED <<lruVars, evVars, stamp>>

\* the locked part of Prune
SeenPruneLocked(m, limit) ==
    [k \in {x \in DOMAIN m : ~SeenExpired(m[x].time, limit)} |-> m[k]]

SeenPrune(p, limit) ==
    /\ Return(p, "seen", [op |-> "SeenPrune", limit |-> limit], "void")
    /\ set' = SeenPruneLocked(set, limit)
    /\ seenMtx' = FALSE
    /\ removed' = (DOMAIN set) \ DOMAIN set'
    /\ popRun' = IF popRun.key \in DOMAIN set' THEN popRun ELSE NoRun
    /\ got' = Held(got, set, set')
    /\ UNCHANGED <<lruVars, evVars, stamp>>

SeenHas(p, txKey, peer) ==
    /\ Return(p, "seen", [op |-> "SeenHas", key |-> txKey, peer |-> peer],
              IF txKey \in DOMAIN set THEN peer \in set[txKey].peers ELSE FALSE)
    /\ seenMtx' = FALSE
    /\ UNCHANGED <<set, popRun, got, stamp, removed>>
    /\ UNCHANGED <<lruVars, evVars>>

\* Get of a key without record returns a nil map
NilPeers == [present |-> FALSE]

SeenGet(p, txKey) ==
    /\ Return(p, "seen", [op |-> "SeenGet", key |-> txKey],
              IF txKey \in DOMAIN set
                THEN [present |-> TRUE, peers |-> set[txKey].peers]
                ELSE NilPeers)
    /\ seenMtx' = FALSE
    /\ got' = IF txKey \in DOMAIN set THEN Copy(txKey, set[txKey].peers) ELSE NilCopy(txKey)
    /\ UNCHANGED <<set, popRun, stamp, removed>>
    /\ UNCHANGED <<lruVars, evVars>>

SeenLen(p) ==
    /\ Return(p, "seen", [op |-> "SeenLen"], Cardinality(DOMAIN set))
    /\ seenMtx' = FALSE
    /\ UNCHANGED <<set, popRun, got, stamp, removed>>
    /\ UNCHANGED <<lruVars, evVars>>

SeenReset(p) ==
    /\ Return(p, "seen", [op |-> "SeenReset"], "void")
    /\ set' = <<>>
    /\ seenMtx' = FALSE
    /\ removed' = (DOMAIN set) \ DOMAIN set'
    /\ popRun' = NoRun
    /\ got' = Held(got, set, set')
    /\ UNCHANGED <<lruVars, evVars, stamp>>

\* --------------------------------------- methods, statement by statement
\* Push, Add and Remove taken in two steps each, the lookup and the update,
\* with the mutex held across both. Between the two steps the structure may
\* be in a state that no completed call leaves (Push has evicted the front
\* key and not yet stored the new one).

\* Push from Lock to the eviction: lines 47-60
PushFind(p, txKey) ==
    /\ pc[p] = "lru"
    /\ ~Disabled(staticSize)
    /\ IF txKey \in cacheMap
         THEN /\ list' = MoveToBack(list, txKey)
              /\ cacheMap' = cacheMap
              /\ Return(p, "lru", [op |-> "LRUPush", key |-> txKey], FALSE)
              /\ lruMtx' = FALSE
              /\ recency' = Append(ListRemove(recency, txKey), txKey)
         ELSE /\ local[p] = NoLocal
              /\ LET front == Front(list)
                     evict == AtCapacity(list, staticSize) /\ front # 0
                 IN /\ cacheMap' = IF evict THEN cacheMap \ {front} ELSE cacheMap
                    /\ list' = IF evict THEN ListRemove(list, front) ELSE list
              /\ local' = [local EXCEPT ![p] =
                             [op |-> "LRUPush", key |-> txKey,
                              before |-> [cacheMap |-> cacheMap, list |-> list]]]
              /\ UNCHANGED <<pc, ret, lruMtx, recency>>
    /\ UNCHANGED <<staticSize, pushOnly, stamp, removed>>
    /\ UNCHANGED <<evVars, seenVars>>

\* Push from PushBack to the return: lines 62-65
PushStore(p) ==
    /\ local[p].op = "LRUPush"
    /\ list' = PushBack(list, local[p].key)
    /\ cacheMap' = cacheMap \cup {local[p].key}
    /\ ReturnAfter(p, "lru", [op |-> "LRUPush", key |-> local[p].key], TRUE)
    /\ lruMtx' = FALSE
    /\ recency' = Append(ListRemove(recency, local[p].key), local[p].key)
    /\ UNCHANGED <<staticSize, pushOnly, stamp, removed>>
    /\ UNCHANGED <<evVars, seenVars>>

\* Add from Lock to the lookup: line 202
AddFind(p, txKey, peer) ==
    /\ ~IsNoPeer(peer)
    /\ pc[p] = "seen"
    /\ local[p] = NoLocal
    /\ local' = [local EXCEPT ![p] =
                   [op |-> "SeenAdd", key |-> txKey, peer |-> peer,
                    exists |-> txKey \in DOMAIN set, before |-> set]]
    /\ UNCHANGED <<pc, ret, stamp, removed>>
    /\ UNCHANGED <<lruVars, evVars, seenVars>>

\* Add from the test of exists to the return: lines 203-211. seenSet.peers
\* is the map of the record looked up, which under the mutex is still the
\* record of the key
AddStore(p) ==
    /\ local[p].op = "SeenAdd"
    /\ LET txKey == local[p].key
           peer == local[p].peer
       IN /\ \E now \in Times :
               set' = IF ~local[p].exists
                        THEN Put(set, txKey, [peers |-> {peer}, time |-> now])
                        ELSE IF txKey \in DOMAIN set
                               THEN [set EXCEPT ![txKey].peers = @ \cup {peer}]
                               ELSE set
          /\ ReturnAfter(p, "seen", [op |-> "SeenAdd", key |-> txKey, peer |-> peer], "void")
          /\ popRun' = EndRun(txKey)
    /\ seenMtx' = FALSE
    /\ got' = Held(got, set, set')
    /\ UNCHANGED <<stamp, removed>>
    /\ UNCHANGED <<lruVars, evVars>>

\* Remove from Lock to the lookup: line 235
RemoveFind(p, txKey, peer) ==
    /\ pc[p] = "seen"
    /\ local[p] = NoLocal
    /\ local' = [local EXCEPT ![p] =
                   [op |-> "SeenRemove", key |-> txKey, peer |-> peer,
                    exists |-> txKey \in DOMAIN set, before |-> set]]
    /\ UNCHANGED <<pc, ret, stamp, removed>>
    /\ UNCHANGED <<lruVars, evVars, seenVars>>

\* Remove from the test of exists to the return: lines 236-243
RemoveStore(p) ==
    /\ local[p].op = "SeenRemove"
    /\ LET txKey == local[p].key
           peer == local[p].peer
       IN /\ set' = IF local[p].exists /\ txKey \in DOMAIN set
                      THEN IF SinglePeer(set[txKey].peers)
                             THEN Delete(set, txKey)
                             ELSE [set EXCEPT ![txKey].peers = @ \ {peer}]
                      ELSE set
          /\ ReturnAfter(p, "seen", [op |-> "SeenRemove", key |-> txKey, peer |-> peer], "void")
          /\ popRun' = EndRun(txKey)
    /\ seenMtx' = FALSE
    /\ got' = Held(got, set, set')
    /\ removed' = (DOMAIN set) \ DOMAIN set'
    /\ UNCHANGED <<lruVars, evVars, stamp>>

\* ------------------------------------------------------------------ specs
NewLRUTxCache(cacheSize) ==
    /\ staticSize = cacheSize
    /\ cacheMap = {}
    /\ list = <<>>
    /\ lruMtx = FALSE
    /\ recency = <<>>
    /\ pushOnly = TRUE

NewEvictedTxCache(size) ==
    /\ evStaticSize = size
    /\ cache = <<>>
    /\ evMtx = FALSE
    /\ evPushed = {}
    /\ evPushOnly = TRUE
    /\ replaced = {}

NewSeenTxSet ==
    /\ set = <<>>
    /\ seenMtx = FALSE
    /\ popRun = NoRun
    /\ got = NoGot

\* no caller has called anything yet
InitCallers ==
    /\ pc = [p \in Procs |-> "idle"]
    /\ local = [p \in Procs |-> NoLocal]
    /\ ret = NoRet
    /\ stamp = NoStamp
    /\ removed = {}

NextLRU ==
    \/ \E p \in Procs : LRULock(p)
    \/ \E p \in Procs, txKey \in Keys : LRUPush(p, txKey)
    \/ \E p \in Procs, txKey \in Keys : LRURemove(p, txKey)
    \/ \E p \in Procs, txKey \in Keys : LRUHas(p, txKey)
    \/ \E p \in Procs : LRUReset(p)

NextEvicted ==
    \/ \E p \in Procs : EvLock(p)
    \/ \E p \in Procs, wtx \in WrappedTxs : EvPush(p, wtx)
    \/ \E p \in Procs, txKey \in Keys : EvHas(p, txKey)
    \/ \E p \in Procs, txKey \in Keys : EvGet(p, txKey)
    \/ \E p \in Procs, txKey \in Keys : EvPop(p, txKey)
    \/ \E p \in Procs, limit \in 0..(MaxTime + 1) : EvPrune(p, limit)
    \/ \E p \in Procs : EvReset(p)

NextSeen ==
    \/ \E p \in Procs : SeenLock(p)
    \/ \E p \in Procs, txKey \in SeenKeys, peer \in Peers : SeenAdd(p, txKey, peer)
    \/ \E p \in Procs, txKey \in SeenKeys : SeenPop(p, txKey)
    \/ \E p \in Procs, txKey \in SeenKeys : SeenRemoveKey(p, txKey)
    \/ \E p \in Procs, txKey \in SeenKeys, peer \in Peers : SeenRemove(p, txKey, peer)
    \/ \E p \in Procs, limit \in 0..(MaxTime + 1) : SeenPrune(p, limit)
    \/ \E p \in Procs, txKey \in SeenKeys, peer \in Peers : SeenHas(p, txKey, peer)
    \/ \E p \in Procs, txKey \in SeenKeys : SeenGet(p, txKey)
    \/ \E p \in Procs : SeenLen(p)
    \/ \E p \in Procs : SeenReset(p)

\* an LRUTxCache of any capacity, used by the callers
InitLRU ==
    /\ \E n \in 0..MaxLRUCap : NewLRUTxCache(n)
    /\ NewEvictedTxCache(0)
    /\ NewSeenTxSet
    /\ InitCallers

\* an EvictedTxCache of any capacity, used by the callers
InitEvicted ==
    /\ NewLRUTxCache(0)
    /\ \E n \in 0..MaxCap : NewEvictedTxCache(n)
    /\ NewSeenTxSet
    /\ InitCallers

\* a SeenTxSet, used by the callers
InitSeen ==
    /\ NewLRUTxCache(0)
    /\ NewEvictedTxCache(0)
    /\ NewSeenTxSet
    /\ InitCallers

SpecLRU == InitLRU /\ [][NextLRU]_vars

SpecEvicted == InitEvicted /\ [][NextEvicted]_vars

SpecSeen == InitSeen /\ [][NextSeen]_vars

\* one instance of each structure, the first two of the same capacity 0 or
\* 1, and the callers using all three at once, each structure through the
\* methods that fill it, query it and reset it, on its first key
NextAll ==
    \/ \E p \in Procs : LRULock(p)
    \/ \E p \in Procs, txKey \in SeenKeys : LRUPush(p, txKey)
    \/ \E p \in Procs : LRUHas(p, 1)
    \/ \E p \in Procs : LRUReset(p)
    \/ \E p \in Procs : EvLock(p)
    \/ \E p \in Procs, wtx \in {w \in WrappedTxs : w.key = 1 /\ w.priority = 1} : EvPush(p, wtx)
    \/ \E p \in Procs : EvHas(p, 1)
    \/ \E p \in Procs : EvGet(p, 1)
    \/ \E p \in Procs : EvReset(p)
    \/ \E p \in Procs : SeenLock(p)
    \/ \E p \in Procs, peer \in {0, 1} : SeenAdd(p, 1, peer)
    \/ \E p \in Procs : SeenHas(p, 1, 1)
    \/ \E p \in Procs : SeenGet(p, 1)
    \/ \E p \in Procs : SeenLen(p)
    \/ \E p \in Procs : SeenReset(p)

InitAll ==
    /\ \E n \in {0, 1} : NewLRUTxCache(n) /\ NewEvictedTxCache(n)
    /\ NewSeenTxSet
    /\ InitCallers

SpecAll == InitAll /\ [][NextAll]_vars

\* one instance of each structure, of capacity 1 where it has one, and the
\* callers using all three at once, with Push of the LRUTxCache and Add and
\* Remove of the SeenTxSet taken statement by statement
NextSteps ==
    \/ \E p \in Procs : LRULock(p)
    \/ \E p \in Procs, txKey \in SeenKeys : PushFind(p, txKey)
    \/ \E p \in Procs : PushStore(p)
    \/ \E p \in Procs : LRUHas(p, 1)
    \/ \E p \in Procs : EvLock(p)
    \/ \E p \in Procs, wtx \in {w \in WrappedTxs : w.key = 1 /\ w.priority = 1} : EvPush(p, wtx)
    \/ \E p \in Procs : EvHas(p, 1)
    \/ \E p \in Procs : SeenLock(p)
    \/ \E p \in Procs, peer \in {1, 2} : AddFind(p, 1, peer)
    \/ \E p \in Procs : AddStore(p)
    \/ \E p \in Procs, peer \in {1, 2} : RemoveFind(p, 1, peer)
    \/ \E p \in Procs : RemoveStore(p)
    \/ \E p \in Procs : SeenHas(p, 1, 1)
    \/ \E p \in Procs : SeenGet(p, 1)

InitSteps ==
    /\ NewLRUTxCache(1)
    /\ NewEvictedTxCache(1)
    /\ NewSeenTxSet
    /\ InitCallers

SpecSteps == InitSteps /\ [][NextSteps]_vars

\* the three structures side by side, each of any capacity
Init ==
    /\ \E n \in 0..MaxLRUCap : NewLRUTxCache(n)
    /\ \E n \in 0..MaxCap : NewEvictedTxCache(n)
    /\ NewSeenTxSet
    /\ InitCallers

Next == NextLRU \/ NextEvicted \/ NextSeen

Spec == Init /\ [][Next]_vars

\* ------------------------------------------------- LRUTxCache: properties
\* position of key k in sequence s, 0 when absent
Pos(s, k) == IF \E i \in 1..Len(s) : s[i] = k
               THEN CHOOSE i \in 1..Len(s) : s[i] = k
               ELSE 0

\* the last n elements of s (all of s when it is shorter)
Suffix(s, n) == IF Len(s) <= n THEN s ELSE SubSeq(s, Len(s) - n + 1, Len(s))

\* the key of S whose most recent Push is the oldest
OldestPushed(S) == CHOOSE k \in S : \A j \in S : Pos(recency, k) <= Pos(recency, j)

\* caller p completes, in this step, the locked part of method op
Completes(p, op) == pc[p] # "idle" /\ pc'[p] = "idle" /\ ret'.call.op = op

\* C1: in every reachable state the Dedup Cache stores at most staticSize
\* keys, in the lookup map and in the ordering alike, whatever calls the
\* concurrent callers have issued.
C1_SizeBounded ==
    /\ Cardinality(cacheMap) <= staticSize
    /\ Len(list) <= staticSize

\* a Push of a new key into a full cache has completed and the cache is still full
C1_Witness ==
    /\ staticSize >= 1
    /\ ret.call.op = "LRUPush" /\ ret.val = TRUE
    /\ Len(recency) > staticSize
    /\ Cardinality(cacheMap) = staticSize

\* C2: a Push of an absent key into a cache that holds staticSize >= 1 keys
\* evicts exactly the stored key whose most recent Push is the oldest and
\* keeps every other stored key; and after Pushes only, once staticSize + 1
\* keys have been pushed, the first of them is absent and the others present.
C2_EvictsLRU ==
    /\ [][\A p \in Procs :
            (/\ Completes(p, "LRUPush")
             /\ ret'.call.key \notin cacheMap
             /\ Cardinality(cacheMap) = staticSize)
            => /\ cacheMap' = (cacheMap \ {OldestPushed(cacheMap)}) \cup {ret'.call.key}
               /\ OldestPushed(cacheMap) \notin cacheMap'
               /\ Cardinality(cacheMap') = staticSize]_vars
    /\ [](pushOnly /\ staticSize >= 1 /\ Len(recency) = staticSize + 1
            => /\ recency[1] \notin cacheMap
               /\ \A i \in 2..(staticSize + 1) : recency[i] \in cacheMap)

\* staticSize + 1 keys were pushed (no Remove, no Reset) and the last Push evicted
C2_Witness ==
    /\ staticSize = MaxCap
    /\ pushOnly
    /\ ret.call.op = "LRUPush" /\ ret.val = TRUE
    /\ Len(recency) = staticSize + 1
    /\ recency[1] \notin cacheMap
    /\ Cardinality(cacheMap) = staticSize

\* C3: with staticSize >= 1, Push(k) returns false exactly when k is stored;
\* such a Push leaves the stored keys and their number unchanged and puts k
\* at the most-recently-used end, so that after Pushes only the cache holds
\* the staticSize most recently pushed keys, in the order of their last Push.
C3_RepushMovesToBack ==
    /\ [][\A p \in Procs :
            Completes(p, "LRUPush")
            => /\ ret'.val = (ret'.call.key \notin cacheMap)
               /\ ret'.call.key \in cacheMap
                    => /\ cacheMap' = cacheMap
                       /\ Len(list') = Len(list)
                       /\ list' = Append(ListRemove(list, ret'.call.key), ret'.call.key)]_vars
    /\ [](pushOnly /\ staticSize >= 1 => list = Suffix(recency, staticSize))

\* a full cache of two or more keys in which the least recently pushed key was
\* pushed again: it is now at the back and another key is at the front
C3_Witness ==
    /\ staticSize >= 2
    /\ pushOnly
    /\ ret.call.op = "LRUPush" /\ ret.val = FALSE
    /\ Len(list) = staticSize
    /\ Len(recency) = staticSize
    /\ list[Len(list)] = 1
    /\ list[1] = 2

\* C4: a cache constructed with staticSize 0 never stores a key, every Push
\* returns true and every Has returns false, whatever was called before.
C4_DisabledCache ==
    staticSize = 0
    => /\ cacheMap = {}
       /\ list = <<>>
       /\ ret.call.op = "LRUPush" => ret.val = TRUE
       /\ ret.call.op = "LRUHas" => ret.val = FALSE

\* with staticSize 0: a key was pushed twice and then Has was asked
C4_Witness ==
    /\ staticSize = 0
    /\ Len(recency) >= 2
    /\ ~pushOnly
    /\ ret.call.op = "LRUHas" /\ ret.val = FALSE

\* --------------------------------------------- EvictedTxCache: properties
Min(a, b) == IF a <= b THEN a ELSE b

\* the cache right after the insertion of a Push that gives its record the timestamp t1
Inserted(t1) == Put(cache, ret'.call.wtx.key, NewInfo(ret'.call.wtx, t1))

\* C5: the Eviction-History Cache never holds more than evStaticSize records,
\* whatever the concurrent callers have called; a Push of a new key adds one
\* record up to that limit, and after Pushes of evStaticSize + 1 distinct
\* keys (and nothing else) it holds exactly evStaticSize records.
C5_EvictedSizeBounded ==
    /\ [](Cardinality(DOMAIN cache) <= evStaticSize)
    /\ [][\A p \in Procs :
            Completes(p, "EvPush")
            => Cardinality(DOMAIN cache') =
                 IF ret'.call.wtx.key \in DOMAIN cache
                   THEN Cardinality(DOMAIN cache)
                   ELSE Min(Cardinality(DOMAIN cache) + 1, evStaticSize)]_vars
    /\ [](evPushOnly /\ Cardinality(evPushed) = evStaticSize + 1
            => Cardinality(DOMAIN cache) = evStaticSize)

\* evStaticSize + 1 distinct keys were pushed, nothing else was called, and
\* the last Push deleted a record
C5_Witness ==
    /\ evStaticSize = MaxCap
    /\ evPushOnly
    /\ Cardinality(evPushed) = evStaticSize + 1
    /\ ret.call.op = "EvPush"
    /\ removed # {}
    /\ Cardinality(DOMAIN cache) = evStaticSize

\* C6: a Push that makes the number of records exceed evStaticSize deletes
\* exactly one record, and no record present after the insertion (the pushed
\* one included) has an earlier eviction timestamp than the deleted one,
\* whatever the clock returned to this Push and to the earlier ones.
C6_OldestRemoved ==
    [][\A p \in Procs :
         (Completes(p, "EvPush") /\ TooLarge(Inserted(stamp'), evStaticSize))
         => LET m1 == Inserted(stamp')
            IN /\ Cardinality(removed') = 1
               /\ cache' = Delete(m1, CHOOSE k \in removed' : TRUE)
               /\ \A k \in removed' : \A j \in DOMAIN m1 :
                     m1[k].timeEvicted <= m1[j].timeEvicted]_vars

\* What holds of Push instead: the deleted record is an oldest one or the
\* pushed one (the pushed one when the clock stepped back between the two
\* readings that Push takes and no record is before the second reading).
EvPushRemovesOldestOrPushed ==
    [][\A p \in Procs :
         (Completes(p, "EvPush") /\ TooLarge(Inserted(stamp'), evStaticSize))
         => LET m1 == Inserted(stamp')
            IN /\ Cardinality(removed') = 1
               /\ cache' = Delete(m1, CHOOSE k \in removed' : TRUE)
               /\ \A k \in removed' :
                     \/ k = ret'.call.wtx.key
                     \/ \A j \in DOMAIN m1 : m1[k].timeEvicted <= m1[j].timeEvicted]_vars

\* C7: Prune(limit) deletes the records whose eviction timestamp is before
\* limit and no others: a record stamped at limit or later stays, with the
\* contents it had.
C7_PruneStrictlyBefore ==
    [][\A p \in Procs :
         Completes(p, "EvPrune")
         => /\ DOMAIN cache' =
                 {k \in DOMAIN cache : cache[k].timeEvicted >= ret'.call.limit}
            /\ \A k \in DOMAIN cache' : cache'[k] = cache[k]]_vars

\* a Prune has deleted a record and kept one stamped exactly at its limit
C7_Witness ==
    /\ ret.call.op = "EvPrune"
    /\ removed # {}
    /\ \E k \in DOMAIN cache : cache[k].timeEvicted = ret.call.limit

\* -------------------------------------------------- SeenTxSet: properties
\* the peers recorded for key k: none when it has no record
PeersOf(m, k) == IF k \in DOMAIN m THEN m[k].peers ELSE {}

\* C8: the peer 0 is never recorded: Add(key, 0) leaves the whole set as it
\* is (so Len and every Get too), no record holds 0, Has(key, 0) returns
\* false and no set that Get returns contains 0.
C8_ZeroPeerNeverRecorded ==
    /\ [][(ret'.call.op = "SeenAdd" /\ ret'.call.peer = 0) => set' = set]_vars
    /\ [](/\ \A k \in DOMAIN set : 0 \notin set[k].peers
          /\ (ret.call.op = "SeenHas" /\ ret.call.peer = 0) => ret.val = FALSE
          /\ (ret.call.op = "SeenGet" /\ ret.val.present) => 0 \notin ret.val.peers)

\* Add(key, 0) has returned for a key that has a record with peers
C8_Witness ==
    /\ ret.call.op = "SeenAdd"
    /\ ret.call.peer = 0
    /\ PeersOf(set, ret.call.key) # {}

\* C9: Remove(key, peer) deletes the whole record when it holds exactly one
\* peer, whoever that is; otherwise it takes only the named peer out and
\* leaves the others and the timestamp; without record it changes nothing.
\* No other key is touched. With Add putting the peer into the (possibly
\* new) record, Add p1, Add p2, Remove p1 leaves p2 alone and a following
\* Remove p2 leaves no record.
C9_RemoveDeletesSingleton ==
    /\ [][\A p \in Procs :
            Completes(p, "SeenRemove")
            => LET k == ret'.call.key
               IN /\ \A j \in SeenKeys \ {k} :
                       /\ j \in DOMAIN set' <=> j \in DOMAIN set
                       /\ j \in DOMAIN set => set'[j] = set[j]
                  /\ k \notin DOMAIN set => k \notin DOMAIN set'
                  /\ (k \in DOMAIN set /\ Cardinality(set[k].peers) = 1)
                       => k \notin DOMAIN set'
                  /\ (k \in DOMAIN set /\ Cardinality(set[k].peers) # 1)
                       => /\ k \in DOMAIN set'
                          /\ set'[k].peers = set[k].peers \ {ret'.call.peer}
                          /\ set'[k].time = set[k].time]_vars
    /\ [][\A p \in Procs :
            Completes(p, "SeenAdd")
            => /\ ret'.call.key \in DOMAIN set'
               /\ set'[ret'.call.key].peers =
                    PeersOf(set, ret'.call.key) \cup {ret'.call.peer}]_vars

\* a Remove has deleted the record of its key while the other key keeps its own
C9_Witness ==
    /\ ret.call.op = "SeenRemove"
    /\ removed = {ret.call.key}
    /\ DOMAIN set # {}

\* C10: Pop(key) returns 0 and changes nothing when the key has no record or
\* no peer; otherwise it returns one of the record's peers and takes it out,
\* leaving the rest. So in a run of Pops on one key that no other mutation of
\* that key interrupts, no peer is handed out twice, the peers handed out
\* and the peers left are together the peers the run began with, and once
\* all are handed out every further Pop returns 0.
C10_PopHandsOutOnce ==
    /\ [][\A p \in Procs :
            Completes(p, "SeenPop")
            => LET k == ret'.call.key
               IN IF PeersOf(set, k) = {}
                    THEN ret'.val = 0 /\ set' = set
                    ELSE /\ ret'.val \in set[k].peers
                         /\ popRun.key = k => ret'.val \notin popRun.handed
                         /\ set' = [set EXCEPT ![k].peers = @ \ {ret'.val}]]_vars
    /\ [](popRun.key # 0
            => /\ popRun.handed \cup PeersOf(set, popRun.key) = popRun.base
               /\ popRun.handed \cap PeersOf(set, popRun.key) = {}
               /\ popRun.n = Cardinality(popRun.handed)
               /\ 0 \notin popRun.handed)

\* two Pops have handed out the two peers of a record and a third returned 0
C10_Witness ==
    /\ popRun.key # 0
    /\ Cardinality(popRun.base) = 2
    /\ popRun.n = 2
    /\ ret.call.op = "SeenPop"
    /\ ret.val = 0

\* ------------------------------------------------- Reset: properties
\* the fields of the LRUTxCache are those NewLRUTxCache(size) gives them
FreshLRU(size) == staticSize = size /\ cacheMap = {} /\ list = <<>>

\* the fields of the EvictedTxCache are those NewEvictedTxCache(size) gives them
FreshEvicted(size) == evStaticSize = size /\ cache = <<>>

\* the fields of the SeenTxSet are those NewSeenTxSet gives them
FreshSeen == set = <<>>

\* C11: a Reset of any of the three caches, after whatever calls, leaves the
\* fields of that cache as its constructor leaves them for the same
\* capacity (and the other caches as they are), so all that follows behaves
\* as on a fresh instance; in particular a query answered in such a state
\* returns what it returns on a fresh instance: Has false, Get nil, Len 0.
C11_ResetRestoresFresh ==
    /\ [][\A p \in Procs :
            /\ Completes(p, "LRUReset")
                 => FreshLRU(staticSize)' /\ UNCHANGED <<evStaticSize, cache, set>>
            /\ Completes(p, "EvReset")
                 => FreshEvicted(evStaticSize)' /\ UNCHANGED <<staticSize, cacheMap, list, set>>
            /\ Completes(p, "SeenReset")
                 => FreshSeen' /\ UNCHANGED <<staticSize, cacheMap, list, evStaticSize, cache>>]_vars
    /\ [][/\ (FreshLRU(staticSize) /\ ret'.call.op = "LRUHas") => ret'.val = FALSE
          /\ (FreshEvicted(evStaticSize) /\ ret'.call.op = "EvHas") => ret'.val = FALSE
          /\ (FreshEvicted(evStaticSize) /\ ret'.call.op = "EvGet") => ret'.val = NilInfo
          /\ (FreshSeen /\ ret'.call.op = "SeenHas") => ret'.val = FALSE
          /\ (FreshSeen /\ ret'.call.op = "SeenGet") => ret'.val = NilPeers
          /\ (FreshSeen /\ ret'.call.op = "SeenLen") => ret'.val = 0]_vars

\* the LRUTxCache was reset after Pushes had filled it, and the
\* EvictedTxCache was reset before
C11_Witness ==
    /\ staticSize = 1
    /\ ret.call.op = "LRUReset"
    /\ Len(recency) = 2
    /\ ~evPushOnly
    /\ FreshLRU(1)

\* ------------------------------------- SeenTxSet: lifecycle of a record
\* key k has a record and the record holds no peer
EmptyRecord(m, k) == k \in DOMAIN m /\ m[k].peers = {}

\* C12 as stated: in every reachable state every key that has a record
\* (counted by Len, non-nil in Get) has at least one peer in it.
C12_NoEmptyRecord == \A k \in DOMAIN set : set[k].peers # {}

\* C12 as it holds: a record without peers comes into being only by a Pop
\* that takes the last peer of its key out; Pop never deletes a record, and a
\* Remove on a record with exactly one peer deletes the record.
C12_EmptyOnlyByPop ==
    /\ [][\A k \in SeenKeys :
            (EmptyRecord(set', k) /\ ~EmptyRecord(set, k))
            => /\ ret'.call = [op |-> "SeenPop", key |-> k]
               /\ k \in DOMAIN set
               /\ set[k].peers = {ret'.val}]_vars
    /\ [][\A p \in Procs :
            /\ Completes(p, "SeenPop") => DOMAIN set' = DOMAIN set
            /\ (/\ Completes(p, "SeenRemove")
                /\ Cardinality(PeersOf(set, ret'.call.key)) = 1)
                 => ret'.call.key \notin DOMAIN set']_vars

\* a Pop has returned the last peer of a record and the record is still there
C12_Witness ==
    /\ ret.call.op = "SeenPop"
    /\ ret.val # 0
    /\ EmptyRecord(set, ret.call.key)

\* ------------------------------------------------ mutual exclusion
Mutexes == {"lru", "evicted", "seen"}

\* the callers that hold the mutex named m
Holders(m) == {p \in Procs : pc[p] = m}

\* the methods taken statement by statement, per structure
StepOps(m) ==
    IF m = "lru" THEN {"LRUPush"}
    ELSE IF m = "seen" THEN {"SeenAdd", "SeenRemove"}
    ELSE {}

\* some caller is in the middle of a method of the structure of mutex m
Halfway(m) == \E q \in Procs : local[q].op \in StepOps(m)

\* C13: of each structure at most one caller is between Lock and Unlock at
\* any time (and the mutex is held exactly then). So a method taken statement
\* by statement is serialized: while a caller is in the middle of one, no
\* other step changes that structure, and when it returns the structure is
\* what the whole method, applied in one step to the structure as it was at
\* the lookup, leaves and the return value is that method's. A Has or Get
\* returns only while no Push, Add or Remove of its structure is half done.
C13_Serialized ==
    /\ [](/\ \A m \in Mutexes : Cardinality(Holders(m)) <= 1
          /\ lruMtx = (Holders("lru") # {})
          /\ evMtx = (Holders("evicted") # {})
          /\ seenMtx = (Holders("seen") # {})
          /\ \A p \in Procs : local[p] # NoLocal =>
                pc[p] = (IF local[p].op = "LRUPush" THEN "lru" ELSE "seen"))
    /\ [][\A p \in Procs :
            (local[p] # NoLocal /\ local'[p] = local[p])
            => IF local[p].op = "LRUPush"
                 THEN UNCHANGED <<cacheMap, list>>
                 ELSE UNCHANGED set]_vars
    /\ [][\A p \in Procs :
            /\ (Completes(p, "LRUPush") /\ local[p] # NoLocal)
                 => LET r == PushLocked(local[p].before.cacheMap, local[p].before.list,
                                        staticSize, local[p].key)
                    IN /\ cacheMap' = r.cacheMap
                       /\ list' = r.list
                       /\ ret'.val = r.ret
            /\ (Completes(p, "SeenAdd") /\ local[p] # NoLocal)
                 => \E now \in Times :
                      set' = AddLocked(local[p].before, local[p].key, local[p].peer, now)
            /\ (Completes(p, "SeenRemove") /\ local[p] # NoLocal)
                 => set' = RemoveLocked(local[p].before, local[p].key, local[p].peer)
            /\ Completes(p, "LRUHas") => ~Halfway("lru")
            /\ (Completes(p, "SeenHas") \/ Completes(p, "SeenGet")) => ~Halfway("seen")]_vars

\* one caller is in the middle of a Push that has evicted the only key of
\* the LRUTxCache while another is in the middle of an Add to a record of
\* the SeenTxSet
C13_Witness ==
    /\ local[1].op = "LRUPush"
    /\ local[1].before.list # <<>>
    /\ list = <<>>
    /\ local[2].op = "SeenAdd"
    /\ local[2].exists

\* C14: a Pop never deletes a record, also when it takes the last peer out:
\* the keys and their timestamps stay. The key of a record without peers is
\* counted by Len and Get returns for it an empty set, not nil; an Add to it
\* puts the peer into that record, which keeps its timestamp. A record goes
\* only by a Remove on its key while it holds one peer, a RemoveKey on its
\* key, a Prune or a Reset.
C14_PopKeepsRecord ==
    /\ [][\A p \in Procs :
            /\ Completes(p, "SeenPop")
                 => /\ DOMAIN set' = DOMAIN set
                    /\ \A k \in DOMAIN set : set'[k].time = set[k].time
            /\ (Completes(p, "SeenGet") /\ EmptyRecord(set, ret'.call.key))
                 => ret'.val = [present |-> TRUE, peers |-> {}]
            /\ Completes(p, "SeenLen")
                 => ret'.val = Cardinality({k \in SeenKeys : k \in DOMAIN set})
            /\ (Completes(p, "SeenAdd") /\ EmptyRecord(set, ret'.call.key))
                 => set'[ret'.call.key] =
                      [peers |-> {ret'.call.peer}, time |-> set[ret'.call.key].time]]_vars
    /\ [][\A k \in (DOMAIN set) \ DOMAIN set' :
            \/ /\ ret'.call.op = "SeenRemove"
               /\ ret'.call.key = k
               /\ Cardinality(set[k].peers) = 1
            \/ ret'.call = [op |-> "SeenRemoveKey", key |-> k]
            \/ ret'.call.op = "SeenPrune"
            \/ ret'.call.op = "SeenReset"]_vars

\* Get has returned an empty set, not nil, for a key whose record Pops emptied
C14_Witness ==
    /\ ret.call.op = "SeenGet"
    /\ ret.val.present
    /\ ret.val.peers = {}
    /\ EmptyRecord(set, ret.call.key)
    /\ popRun.key = ret.call.key
    /\ popRun.n >= 1

\* C15: a record gets its timestamp when an Add for its key creates it, and
\* keeps it as long as it exists, whatever Add, Pop or Remove does to its
\* peers. Prune(limit) deletes the records whose timestamp is before limit
\* and no others, whatever peers they hold, and leaves the records it keeps
\* as they are.
C15_SeenTimeFixed ==
    /\ [][\A k \in SeenKeys :
            /\ (k \in DOMAIN set /\ k \in DOMAIN set') => set'[k].time = set[k].time
            /\ (k \notin DOMAIN set /\ k \in DOMAIN set')
                 => /\ ret'.call.op = "SeenAdd"
                    /\ ret'.call.key = k
                    /\ set'[k].peers = {ret'.call.peer}]_vars
    /\ [][\A p \in Procs :
            Completes(p, "SeenPrune")
            => /\ DOMAIN set' = {k \in DOMAIN set : set[k].time >= ret'.call.limit}
               /\ \A k \in DOMAIN set' : set'[k] = set[k]]_vars

\* a Prune has deleted a record and kept one that is stamped exactly at its
\* limit and holds no peer any more
C15_Witness ==
    /\ ret.call.op = "SeenPrune"
    /\ removed # {}
    /\ \E k \in DOMAIN set : set[k].time = ret.call.limit /\ set[k].peers = {}

\* C16: Get returns nil exactly when the key has no record and otherwise the
\* peers the record holds at the instant of Get's step, which lies within
\* the call; and the map a caller got is its own: no Add, Remove, Pop,
\* RemoveKey, Prune or Reset that completes afterwards changes it.
C16_GetSnapshot ==
    /\ [][\A p \in Procs :
            Completes(p, "SeenGet")
            => /\ ret'.val = IF ret'.call.key \in DOMAIN set
                               THEN [present |-> TRUE, peers |-> set[ret'.call.key].peers]
                               ELSE NilPeers
               /\ got'.key = ret'.call.key
               /\ got'.present = ret'.val.present
               /\ got'.present => got'.peers = ret'.val.peers]_vars
    /\ [][(got.key # 0 /\ got'.key # 0 /\ ret'.call.op # "SeenGet")
            => /\ got'.present = got.present
               /\ got'.peers = got.peers]_vars

\* after a Get returned the peers of a record, an Add has put another peer
\* into that record
C16_Witness ==
    /\ got.key # 0
    /\ got.present
    /\ ret.call.op = "SeenAdd"
    /\ ret.call.key = got.key
    /\ ret.call.peer \notin got.peers
    /\ ret.call.peer \in PeersOf(set, got.key)

\* ------------------------------------- EvictedTxCache: Pop and Push
\* the metadata of a record
MetaOf(info) ==
    [priority |-> info.priority, gasWanted |-> info.gasWanted,
     sender |-> info.sender, size |-> info.size]

\* C17: Pop of a key that has a record returns that record and deletes it in
\* the same step; Pop of a key without record returns nil and changes
\* nothing. The record of a key is written by a Push of that key only, with
\* the metadata of that Push, and a key gets a record by a Push of that key
\* only: so what Pop returns is what the latest Push of the key gave, Has is
\* false from the Pop to the next Push of the key, and of the Pops that
\* follow one Push at most one returns the record.
C17_PopAtomic ==
    /\ [][\A p \in Procs :
            /\ Completes(p, "EvPop")
                 => IF ret'.call.key \in DOMAIN cache
                      THEN /\ ret'.val = cache[ret'.call.key]
                           /\ cache' = Delete(cache, ret'.call.key)
                      ELSE /\ ret'.val = NilInfo
                           /\ cache' = cache
            /\ Completes(p, "EvHas") => ret'.val = (ret'.call.key \in DOMAIN cache)
            /\ (Completes(p, "EvPush") /\ ret'.call.wtx.key \in DOMAIN cache')
                 => MetaOf(cache'[ret'.call.wtx.key]) = MetaOf(ret'.call.wtx)]_vars
    /\ [][\A k \in DOMAIN cache' :
            (k \notin DOMAIN cache \/ cache'[k] # cache[k])
            => ret'.call.op = "EvPush" /\ ret'.call.wtx.key = k]_vars

\* a Pop has returned the record of its key, with the metadata of the second
\* kind, and the key has no record any more
C17_Witness ==
    /\ ret.call.op = "EvPop"
    /\ ret.val # NilInfo
    /\ ret.val.priority = 2
    /\ removed = {ret.call.key}
    /\ ret.call.key \notin DOMAIN cache

\* ------------------------------------------ LRUTxCache: new to one caller
\* C18: with staticSize >= 1 a Push(k), whichever caller gets the mutex
\* first, returns true when k is not stored and false when it is, and leaves
\* k stored; and a stored key stops being stored only by a Remove of it, a
\* Reset, or the eviction by a Push of another key that was new. So of the
\* Pushes of k that contend for a cache without k, with none of these three
\* in between, the first to lock returns true and all the others false.
C18_NewToOneCaller ==
    /\ [][\A p \in Procs :
            Completes(p, "LRUPush")
            => /\ ret'.val = (ret'.call.key \notin cacheMap)
               /\ ret'.call.key \in cacheMap']_vars
    /\ [][\A k \in cacheMap \ cacheMap' :
            \/ ret'.call = [op |-> "LRURemove", key |-> k]
            \/ ret'.call.op = "LRUReset"
            \/ /\ ret'.call.op = "LRUPush"
               /\ ret'.call.key # k
               /\ ret'.val = TRUE]_vars

\* nothing but one key was ever pushed (no Remove, no Reset), and the Push of
\* it that completed last returned false
C18_Witness ==
    /\ staticSize >= 1
    /\ pushOnly
    /\ Len(recency) = 1
    /\ ret.call.op = "LRUPush"
    /\ ret.val = FALSE
    /\ cacheMap = {ret.call.key}

\* ------------------------------------------ LRUTxCache: Has and Remove
\* the keys of list l that are not k, in the order they have in l
Without(l, k) == SelectSeq(l, LAMBDA x : x # k)

\* C19: Has returns whether the key is stored and changes neither the stored
\* keys nor their order; Remove takes its key, and nothing else, out of the
\* map and out of the ordering, the other keys keeping their order, and
\* changes nothing when the key is not stored. In every reachable state the
\* map and the ordering hold the same keys, each once.
C19_HasRemoveFrame ==
    /\ [](/\ {list[i] : i \in 1..Len(list)} = cacheMap
          /\ Len(list) = Cardinality(cacheMap))
    /\ [][ret'.call.op = "LRUHas"
            => /\ UNCHANGED <<cacheMap, list>>
               /\ ret'.val = (staticSize > 0 /\ ret'.call.key \in cacheMap)]_vars
    /\ [][\A p \in Procs :
            Completes(p, "LRURemove")
            => /\ cacheMap' = cacheMap \ {ret'.call.key}
               /\ list' = Without(list, ret'.call.key)
               /\ ret'.call.key \notin cacheMap => UNCHANGED <<cacheMap, list>>]_vars

\* a Remove has taken the second of three pushed keys out of a full cache and
\* the first and the third are left, in their order
C19_Witness ==
    /\ staticSize = 3
    /\ Len(recency) = 3
    /\ ret.call = [op |-> "LRURemove", key |-> recency[2]]
    /\ list = <<recency[1], recency[3]>>

\* C20: a Push of a key that has a record (so evStaticSize >= 1) overwrites
\* that record with the metadata of this Push and the timestamp read for it,
\* and does nothing else: every other record stays as it is, none is
\* deleted and the number of records is the same, also in a full cache.
C20_RepushReplaces ==
    [][\A p \in Procs :
         (Completes(p, "EvPush") /\ ret'.call.wtx.key \in DOMAIN cache)
         => /\ cache' = [cache EXCEPT ![ret'.call.wtx.key] = NewInfo(ret'.call.wtx, stamp')]
            /\ DOMAIN cache' = DOMAIN cache
            /\ removed' = {}]_vars

\* in a full cache of the largest capacity a Push has overwritten the record
\* of its key with other metadata; the other record is still there
C20_Witness ==
    /\ evStaticSize = MaxCap
    /\ Cardinality(DOMAIN cache) = MaxCap
    /\ ret.call.op = "EvPush"
    /\ replaced = {ret.call.wtx.key}
    /\ removed = {}
    /\ MetaOf(cache[ret.call.wtx.key]) = MetaOf(ret.call.wtx)
    /\ \E k \in DOMAIN cache : MetaOf(cache[k]) # MetaOf(ret.call.wtx)

====
